---- MODULE Spec2Model ----
(***************************************************************************)
(* The image classifier and the response lookup of rag_model.py.           *)
(*                                                                         *)
(* A Python str is a sequence of one-character strings, so that lower(),   *)
(* ' '.join() and the `in` substring test are computed character by        *)
(* character.  Python's None is the value None below, which is no str.     *)
(* A returned dict is a record whose DOMAIN is the dict's key set.         *)
(* The confidence 0.99 is kept in hundredths (99).                         *)
(***************************************************************************)
EXTENDS Integers, Sequences, FiniteSets, TLC

VARIABLES
    pc,             \* "idle" before a call, "returned" after analyze_maize_image
    image,          \* the PIL image handed to analyze_maize_image
    service,        \* what the vision service does with the image
    result,         \* the dict analyze_maize_image returned
    raised,         \* TRUE when analyze_maize_image raised to its caller
    service_calls,  \* calls to the vision service made by that invocation
    seen_images,    \* the images of the invocations the service has answered
    seen_results,   \* the results returned by those invocations
    lookup_pc,      \* "idle", or "called" while get_rag_response runs
    user_message,   \* argument of the current or last get_rag_response call
    context,        \* context argument of that call
    context_after,  \* that context bundle as the call left it
    response,       \* the string that call returned
    lookup_raised,  \* TRUE when that call raised to its caller
    asked,          \* the contexts user_message was asked with, in a row
    answers,        \* the strings returned to those calls
    callback,       \* the callback the last step ran, "none" for a user edit
    callback_outcome, \* "returned", "PreventUpdate" or "raised" for that callback
    contents,       \* upload-image contents given to update_image_upload
    children,       \* output-image-upload children on the page
    triggered,      \* dash.callback_context.triggered, as update_chat saw it
    input_value,    \* chat-input value, as update_chat received it
    history_arg,    \* chat-history children, as update_chat received them
    chat_input,     \* chat-input value on the page
    chat_history,   \* chat-history children on the page
    component_calls,\* calls of the two components made by that callback
    submits,        \* number of chat submits update_chat has accepted
    inventory,      \* the process-wide dictionaries of app.py
    plant_health,
    system_status

vars == <<pc, image, service, result, raised, service_calls, seen_images,
          seen_results,
          lookup_pc, user_message, context, context_after, response,
          lookup_raised, asked, answers,
          callback, callback_outcome, contents, children, triggered, input_value,
          history_arg, chat_input, chat_history, component_calls, submits,
          inventory, plant_health, system_status>>

classifier_vars == <<pc, image, service, result, raised, service_calls,
                     seen_images, seen_results>>
lookup_vars == <<lookup_pc, user_message, context, context_after, response,
                 lookup_raised, asked, answers>>
page_vars == <<callback, callback_outcome, contents, children, triggered, input_value,
               history_arg, chat_input, chat_history, component_calls, submits>>
farm_vars == <<inventory, plant_health, system_status>>

----------------------------------------------------------------------------
(* Bounds of the model *)

MaxTags == 2
MaxCaptions == 2
MaxWords == 2
MaxSubmits == 2

----------------------------------------------------------------------------
(* Python values *)

None == <<"None">>

is_str(x) == x # None /\ x # <<"int">>

UpperCase == <<"A", "B", "C", "D", "E", "F", "G", "H", "I", "J", "K", "L", "M", "N", "O", "P", "Q", "R", "S", "T", "U", "V", "W", "X", "Y", "Z">>
LowerCase == <<"a", "b", "c", "d", "e", "f", "g", "h", "i", "j", "k", "l", "m", "n", "o", "p", "q", "r", "s", "t", "u", "v", "w", "x", "y", "z">>

LowerOf ==
    [c \in {UpperCase[i] : i \in 1..Len(UpperCase)} |->
        LowerCase[CHOOSE i \in 1..Len(UpperCase) : UpperCase[i] = c]]

lower_char(c) == IF c \in DOMAIN LowerOf THEN LowerOf[c] ELSE c

\* str.lower()
lower(s) == [i \in 1..Len(s) |-> lower_char(s[i])]

\* needle in hay, for two strs
contains(needle, hay) ==
    \E i \in 0..(Len(hay) - Len(needle)) :
        SubSeq(hay, i + 1, i + Len(needle)) = needle

RECURSIVE join(_, _)
\* sep.join(strs)
join(sep, strs) ==
    IF strs = <<>> THEN <<>>
    ELSE IF Len(strs) = 1 THEN strs[1]
    ELSE strs[1] \o sep \o join(sep, Tail(strs))

SeqsUpTo(S, n) == UNION {[1..k -> S] : k \in 0..n}

\* outcome of a block of code: it returns a value or raises an exception
Return(v) == [raised |-> FALSE, value |-> v, message |-> ""]
NoResult == [returned |-> FALSE]
Raise(msg) == [raised |-> TRUE, value |-> NoResult, message |-> msg]

AttributeErrorNone == "'NoneType' object has no attribute 'lower'"
AttributeErrorInt == "'int' object has no attribute 'lower'"

----------------------------------------------------------------------------
(* analyze_maize_image: the inputs *)

\* image.save(..., format='JPEG') writes these modes and raises OSError for
\* the others
JPEGModes == {"L", "RGB", "CMYK"}
Images == {[mode |-> "RGB"], [mode |-> "L"], [mode |-> "RGBA"]}

\* tag names and caption texts the vision service may answer with
TagNames == {<<"l", "e", "a", "f">>, <<"p", "l", "a", "n", "t">>, <<"S", "p", "o", "t", "s">>, <<"Y", "E", "L", "L", "O", "W">>, <<"B", "l", "i", "g", "h", "t">>,
             <<"d", "i", "s", "e", "a", "s", "e", "d">>, None}
CaptionTexts == {<<"C", "o", "r", "n">>, <<"B", "r", "o", "w", "n", " ", "l", "e", "a", "f">>, <<"a", " ", "D", "Y", "I", "N", "G", " ", "p", "l", "a", "n", "t">>, None}

ServiceErrors == {"Access denied due to invalid subscription key",
                  "Connection timed out"}

\* analyze_image_in_stream either raises or answers with tags (analysis.tags,
\* each kept as its name) and captions (analysis.description.captions, each
\* kept as its text)
ServiceOutcomes ==
    {[raises |-> TRUE, message |-> m, tags |-> <<>>, captions |-> <<>>] :
        m \in ServiceErrors}
    \cup
    {[raises |-> FALSE, message |-> "", tags |-> t, captions |-> c] :
        t \in SeqsUpTo(TagNames, MaxTags), c \in SeqsUpTo(CaptionTexts, MaxCaptions)}

----------------------------------------------------------------------------
(* analyze_maize_image: the code *)

Healthy == <<"H", "e", "a", "l", "t", "h", "y">>
Spotted == <<"S", "p", "o", "t", "t", "e", "d">>
Blighted == <<"B", "l", "i", "g", "h", "t", "e", "d">>

confidence_initial == 0
confidence_0_99 == 99

disease_indicators ==
    [spotted |-> <<<<"s", "p", "o", "t">>, <<"s", "p", "o", "t", "s">>, <<"s", "p", "o", "t", "t", "e", "d">>, <<"l", "e", "s", "i", "o", "n">>,
                   <<"l", "e", "s", "i", "o", "n", "s">>, <<"b", "r", "o", "w", "n">>, <<"y", "e", "l", "l", "o", "w">>>>,
     blighted |-> <<<<"b", "l", "i", "g", "h", "t">>, <<"b", "l", "i", "g", "h", "t", "e", "d">>, <<"w", "i", "l", "t", "e", "d">>, <<"d", "y", "i", "n", "g">>,
                    <<"d", "i", "s", "e", "a", "s", "e", "d">>, <<"d", "i", "s", "e", "a", "s", "e">>, <<"i", "n", "f", "e", "c", "t", "e", "d">>>>]

\* image.save(img_byte_array, format='JPEG')
save(img) ==
    IF img.mode \in JPEGModes THEN Return(img)
    ELSE Raise("cannot write mode " \o img.mode \o " as JPEG")

\* tags_of without the lower()
tags_of_as_given(analysis) ==
    IF \E i \in 1..Len(analysis.tags) : analysis.tags[i] = None
    THEN Raise(AttributeErrorNone)
    ELSE Return(analysis.tags)

\* tags = [tag.name.lower() for tag in analysis.tags]
tags_of(analysis) ==
    IF \E i \in 1..Len(analysis.tags) : analysis.tags[i] = None
    THEN Raise(AttributeErrorNone)
    ELSE Return([i \in 1..Len(analysis.tags) |-> lower(analysis.tags[i])])

\* description = analysis.description.captions[0].text if captions else ""
description_of(analysis) ==
    IF analysis.captions # <<>> THEN analysis.captions[1] ELSE <<>>

\* text_to_check = ' '.join(tags + [description.lower()])
text_to_check(tags, description) ==
    IF description = None THEN Raise(AttributeErrorNone)
    ELSE Return(join(<<" ">>, tags \o <<lower(description)>>))

\* any(indicator in text for indicator in indicators)
any_indicator(indicators, text) ==
    \E i \in 1..Len(indicators) : contains(indicators[i], text)

\* classify with the spot keywords tested first
classify_spot_first(text) ==
    LET initial == [health_status |-> Healthy, confidence |-> confidence_initial]
    IN  IF any_indicator(disease_indicators.spotted, text)
        THEN [initial EXCEPT !.health_status = Spotted, !.confidence = confidence_0_99]
        ELSE IF any_indicator(disease_indicators.blighted, text)
        THEN [initial EXCEPT !.health_status = Blighted, !.confidence = confidence_0_99]
        ELSE [initial EXCEPT !.health_status = Healthy, !.confidence = confidence_0_99]

\* classify without its else branch
classify_no_else(text) ==
    LET initial == [health_status |-> Healthy, confidence |-> confidence_initial]
    IN  IF any_indicator(disease_indicators.blighted, text)
        THEN [initial EXCEPT !.health_status = Blighted, !.confidence = confidence_0_99]
        ELSE IF any_indicator(disease_indicators.spotted, text)
        THEN [initial EXCEPT !.health_status = Spotted, !.confidence = confidence_0_99]
        ELSE initial

\* classify with a confidence that grows with the number of matches
classify_scored(text) ==
    LET initial == [health_status |-> Healthy, confidence |-> confidence_initial]
        matches(indicators) ==
            Cardinality({i \in 1..Len(indicators) : contains(indicators[i], text)})
    IN  IF any_indicator(disease_indicators.blighted, text)
        THEN [initial EXCEPT !.health_status = Blighted,
                             !.confidence = 90 + matches(disease_indicators.blighted)]
        ELSE IF any_indicator(disease_indicators.spotted, text)
        THEN [initial EXCEPT !.health_status = Spotted,
                             !.confidence = 90 + matches(disease_indicators.spotted)]
        ELSE [initial EXCEPT !.health_status = Healthy, !.confidence = confidence_0_99]

\* the if / elif / else over the two keyword lists, after the two initial
\* assignments
classify(text) ==
    LET initial == [health_status |-> Healthy, confidence |-> confidence_initial]
    IN  IF any_indicator(disease_indicators.blighted, text)
        THEN [initial EXCEPT !.health_status = Blighted, !.confidence = confidence_0_99]
        ELSE IF any_indicator(disease_indicators.spotted, text)
        THEN [initial EXCEPT !.health_status = Spotted, !.confidence = confidence_0_99]
        ELSE [initial EXCEPT !.health_status = Healthy, !.confidence = confidence_0_99]

\* result = {...}
structure_result(label, tags, description) ==
    [success |-> TRUE,
     health_status |-> label.health_status,
     confidence |-> label.confidence,
     description |-> <<"L", "e", "a", "f", " ", "a", "p", "p", "e", "a", "r", "s", " ", "t", "o", " ", "b", "e", " ">> \o lower(label.health_status),
     tags |-> tags,
     raw_description |-> description]

\* failure_result with a placeholder status
failure_result_with_status(message) ==
    [success |-> FALSE, error |-> message, health_status |-> <<"U", "n", "k", "n", "o", "w", "n">>]

\* except Exception as e: return {'success': False, 'error': str(e)}
failure_result(message) == [success |-> FALSE, error |-> message]

\* analyze_try telling a grayscale image healthy whatever the tags
analyze_try_by_image_mode(img, outcome) ==
    IF save(img).raised THEN save(img)
    ELSE IF outcome.raises THEN Raise(outcome.message)
    ELSE IF tags_of(outcome).raised THEN tags_of(outcome)
    ELSE LET tags == tags_of(outcome).value
             description == description_of(outcome)
             text == text_to_check(tags, description)
         IN  IF text.raised THEN text
             ELSE IF img.mode = "L"
             THEN Return(structure_result(classify(<<>>), tags, description))
             ELSE Return(structure_result(classify(text.value), tags, description))

\* the body of the try block
analyze_try(img, outcome) ==
    IF save(img).raised THEN save(img)
    ELSE IF outcome.raises THEN Raise(outcome.message)
    ELSE IF tags_of(outcome).raised THEN tags_of(outcome)
    ELSE LET tags == tags_of(outcome).value
             description == description_of(outcome)
             text == text_to_check(tags, description)
         IN  IF text.raised THEN text
             ELSE Return(structure_result(classify(text.value), tags, description))

\* outbound_calls calling the service a second time after a failed call
outbound_calls_with_retry(img, outcome) ==
    IF save(img).raised THEN 0
    ELSE IF outcome.raises THEN 2
    ELSE 1

\* the calls of vision_client.analyze_image_in_stream one invocation makes:
\* the call follows image.save in the try block and nothing calls it again
outbound_calls(img, outcome) ==
    IF save(img).raised THEN 0 ELSE 1

\* analyze_maize_image catching only the service's errors
analyze_maize_image_narrow_except(img, outcome) ==
    LET body == analyze_try(img, outcome)
    IN  IF body.raised /\ body.message \in ServiceErrors
        THEN Return(failure_result(body.message))
        ELSE body


analyze_maize_image(img, outcome) ==
    LET body == analyze_try(img, outcome)
    IN  IF body.raised THEN Return(failure_result(body.message)) ELSE body

----------------------------------------------------------------------------
(* The classifier called once on an image and a service outcome *)

\* the bundle update_chat builds from the three process-wide dictionaries,
\* each kept as the fields the canned sentences speak about
farm_context ==
    [inventory |-> [Water |-> 85, Nutrients |-> 72],
     plant_health |-> [health |-> 92, humidity |-> 65],
     system_status |-> [alerts |-> "Nutrient levels need adjustment in 24 hours"]]

dry_context ==
    [inventory |-> [Water |-> 10, Nutrients |-> 5],
     plant_health |-> [health |-> 40, humidity |-> 20],
     system_status |-> [alerts |-> "Irrigation System failed"]]

LookupIdle ==
    /\ lookup_pc = "idle"
    /\ user_message = <<>>
    /\ context = [is_none |-> TRUE]
    /\ context_after = [is_none |-> TRUE]
    /\ response = ""
    /\ lookup_raised = FALSE
    /\ asked = {}
    /\ answers = {}

\* chat-history has no children in the layout, and a component without
\* children has children None
NoHistory == <<[none |-> TRUE]>>
NoChildren == [kind |-> "None"]
NoCalls == [analyze_maize_image |-> 0, get_rag_response |-> 0]

\* the page as the layout builds it, and the dictionaries as built at startup
PageIdle ==
    /\ callback = "none"
    /\ callback_outcome = "none"
    /\ contents = None
    /\ children = NoChildren
    /\ triggered = FALSE
    /\ input_value = None
    /\ history_arg = NoHistory
    /\ chat_input = None
    /\ chat_history = NoHistory
    /\ component_calls = NoCalls
    /\ submits = 0
    /\ inventory = farm_context.inventory
    /\ plant_health = farm_context.plant_health
    /\ system_status = farm_context.system_status

Init ==
    /\ pc = "idle"
    /\ image \in Images
    /\ service \in ServiceOutcomes
    /\ result = NoResult
    /\ raised = FALSE
    /\ service_calls = 0
    /\ seen_images = {}
    /\ seen_results = {}
    /\ LookupIdle
    /\ PageIdle

AnalyzeMaizeImage ==
    /\ pc = "idle"
    /\ LET r == analyze_maize_image(image, service)
           answered == outbound_calls(image, service) > 0 /\ ~service.raises
       IN  /\ result' = r.value
           /\ raised' = r.raised
           /\ seen_images' = IF answered THEN seen_images \cup {image}
                              ELSE seen_images
           /\ seen_results' = IF answered /\ ~r.raised
                               THEN seen_results \cup {r.value}
                               ELSE seen_results
    /\ service_calls' = outbound_calls(image, service)
    /\ pc' = "returned"
    /\ UNCHANGED <<image, service>>
    /\ UNCHANGED lookup_vars
    /\ UNCHANGED <<page_vars, farm_vars>>

Next == AnalyzeMaizeImage

Spec == Init /\ [][Next]_vars

\* the classifier invoked again, on any image, while the service keeps
\* giving the same outcome
InvokeAgain ==
    /\ pc = "returned"
    /\ image' \in Images
    /\ pc' = "idle"
    /\ result' = NoResult
    /\ raised' = FALSE
    /\ service_calls' = 0
    /\ UNCHANGED <<service, seen_images, seen_results>>
    /\ UNCHANGED lookup_vars
    /\ UNCHANGED <<page_vars, farm_vars>>

NextRepeat == AnalyzeMaizeImage \/ InvokeAgain

SpecRepeat == Init /\ [][NextRepeat]_vars

----------------------------------------------------------------------------
(* get_rag_response: the inputs *)

Words == {<<"U", "n", "h", "e", "a", "l", "t", "h", "y">>, <<"W", "A", "T", "E", "R">>, <<"n", "u", "t", "r", "i", "e", "n", "t", "s">>, <<"G", "r", "o", "w", "t", "h">>,
          <<"t", "e", "m", "p", "e", "r", "a", "t", "u", "r", "e">>, <<"h", "e", "l", "l", "o">>}

\* free text: up to MaxWords words separated by single spaces
Texts == {join(<<" ">>, ws) : ws \in SeqsUpTo(Words, MaxWords)}

\* a message that is no str: None, or a number
NonStrings == {None, <<"int">>}

Messages == Texts \cup NonStrings

NoneContext == [is_none |-> TRUE]

Contexts == {NoneContext, farm_context, dry_context}

----------------------------------------------------------------------------
(* get_rag_response: the code *)

\* responses with "nutrients" inserted before "water"
responses_nutrients_first ==
    <<[key |-> <<"h", "e", "a", "l", "t", "h">>,
       response |-> "The maize crop is showing good health metrics with optimal pH and humidity levels."],
      [key |-> <<"n", "u", "t", "r", "i", "e", "n", "t", "s">>,
       response |-> "Nutrient levels are at 72%. Consider adjusting nutrient delivery in the next 24 hours."],
      [key |-> <<"w", "a", "t", "e", "r">>,
       response |-> "Current water levels are at 85%, which is within the optimal range for maize growth."],
      [key |-> <<"g", "r", "o", "w", "t", "h">>,
       response |-> "The maize is growing at an optimal rate based on current environmental conditions."],
      [key |-> <<"t", "e", "m", "p", "e", "r", "a", "t", "u", "r", "e">>,
       response |-> "Temperature is maintained at 23.5°C, which is ideal for maize cultivation."]>>

\* the dict of canned sentences, in its insertion order
responses ==
    <<[key |-> <<"h", "e", "a", "l", "t", "h">>,
       response |-> "The maize crop is showing good health metrics with optimal pH and humidity levels."],
      [key |-> <<"w", "a", "t", "e", "r">>,
       response |-> "Current water levels are at 85%, which is within the optimal range for maize growth."],
      [key |-> <<"n", "u", "t", "r", "i", "e", "n", "t", "s">>,
       response |-> "Nutrient levels are at 72%. Consider adjusting nutrient delivery in the next 24 hours."],
      [key |-> <<"g", "r", "o", "w", "t", "h">>,
       response |-> "The maize is growing at an optimal rate based on current environmental conditions."],
      [key |-> <<"t", "e", "m", "p", "e", "r", "a", "t", "u", "r", "e">>,
       response |-> "Temperature is maintained at 23.5°C, which is ideal for maize cultivation."]>>

default_response ==
    "I can help you with information about maize health, water levels, nutrients, growth, and temperature. What would you like to know?"

apology_response ==
    "I apologize, but I'm having trouble processing your request."

RECURSIVE for_key_in_responses(_, _)
\* for key, response in responses.items(): if key in message: return response
\* and, after the loop, the default response
for_key_in_responses(message, i) ==
    IF i > Len(responses) THEN default_response
    ELSE IF contains(responses[i].key, message) THEN responses[i].response
    ELSE for_key_in_responses(message, i + 1)

\* message_of without the lower()
message_of_as_given(msg) ==
    IF msg = None THEN Raise(AttributeErrorNone)
    ELSE IF ~is_str(msg) THEN Raise(AttributeErrorInt)
    ELSE Return(msg)

\* message = user_message.lower()
message_of(msg) ==
    IF msg = None THEN Raise(AttributeErrorNone)
    ELSE IF ~is_str(msg) THEN Raise(AttributeErrorInt)
    ELSE Return(lower(msg))

\* lookup_try reporting the water level of the context bundle
lookup_try_reads_context(msg, ctx) ==
    LET message == message_of(msg)
        found == for_key_in_responses(message.value, 1)
    IN  IF message.raised THEN message @@ [context |-> ctx]
        ELSE IF /\ found = responses[2].response
                /\ ctx # NoneContext
                /\ ctx.inventory.Water < 50
        THEN Return("Current water levels are low.") @@ [context |-> ctx]
        ELSE Return(found) @@ [context |-> ctx]

\* lookup_try drawing the water it reports from the inventory
lookup_try_writes_context(msg, ctx) ==
    LET message == message_of(msg)
        used == IF ctx = NoneContext THEN ctx
                ELSE [ctx EXCEPT !.inventory.Water = 0]
    IN  IF message.raised THEN message @@ [context |-> ctx]
        ELSE Return(for_key_in_responses(message.value, 1)) @@ [context |-> used]

\* the body of the try block; ctx is never read and never written
lookup_try(msg, ctx) ==
    LET message == message_of(msg)
    IN  IF message.raised THEN message @@ [context |-> ctx]
        ELSE Return(for_key_in_responses(message.value, 1)) @@ [context |-> ctx]

\* get_rag_response without its except clause
get_rag_response_no_except(msg, ctx) == lookup_try(msg, ctx)


get_rag_response(msg, ctx) ==
    LET body == lookup_try(msg, ctx)
    IN  IF body.raised
        THEN Return(apology_response) @@ [context |-> body.context]
        ELSE body

----------------------------------------------------------------------------
(* The lookup called repeatedly, each time on any message and any context *)

InitLookup ==
    /\ pc = "idle"
    /\ image = [mode |-> "RGB"]
    /\ service = [raises |-> FALSE, message |-> "", tags |-> <<>>, captions |-> <<>>]
    /\ result = NoResult
    /\ raised = FALSE
    /\ service_calls = 0
    /\ seen_images = {}
    /\ seen_results = {}
    /\ LookupIdle
    /\ PageIdle

\* a caller calls get_rag_response(msg, ctx)
CallGetRagResponse ==
    /\ lookup_pc = "idle"
    /\ \E msg \in Messages, ctx \in Contexts :
        /\ user_message' = msg
        /\ context' = ctx
        /\ context_after' = ctx
        /\ IF msg = user_message
           THEN UNCHANGED <<asked, answers>>
           ELSE asked' = {} /\ answers' = {}
    /\ lookup_pc' = "called"
    /\ response' = ""
    /\ lookup_raised' = FALSE
    /\ UNCHANGED classifier_vars
    /\ UNCHANGED <<page_vars, farm_vars>>

\* get_rag_response runs and returns to its caller
GetRagResponse ==
    /\ lookup_pc = "called"
    /\ LET r == get_rag_response(user_message, context)
       IN  /\ context_after' = r.context
           /\ response' = IF r.raised THEN "" ELSE r.value
           /\ lookup_raised' = r.raised
           /\ answers' = IF r.raised THEN answers ELSE answers \cup {r.value}
    /\ asked' = asked \cup {context}
    /\ lookup_pc' = "idle"
    /\ UNCHANGED <<user_message, context>>
    /\ UNCHANGED classifier_vars
    /\ UNCHANGED <<page_vars, farm_vars>>

NextLookup == CallGetRagResponse \/ GetRagResponse

SpecLookup == InitLookup /\ [][NextLookup]_vars

----------------------------------------------------------------------------
(* update_image_upload: the inputs *)

\* upload-image contents: None, or the data URL the browser builds from the
\* chosen file: a file holding an RGB image, a file holding an RGBA image,
\* a text file, a URL whose base64 text was cut short, a string without a
\* comma and one with two commas
UploadContents ==
    {None,
     <<"d", "a", "t", "a", ":", "i", "m", "a", "g", "e", "/", "j", "p", "e", "g", ";", "b", "a", "s", "e", "6", "4", ",", "U", "k", "d", "C">>,
     <<"d", "a", "t", "a", ":", "i", "m", "a", "g", "e", "/", "p", "n", "g", ";", "b", "a", "s", "e", "6", "4", ",", "U", "k", "d", "C", "Q", "Q", "=", "=">>,
     <<"d", "a", "t", "a", ":", "t", "e", "x", "t", "/", "p", "l", "a", "i", "n", ";", "b", "a", "s", "e", "6", "4", ",", "a", "G", "k", "=">>,
     <<"d", "a", "t", "a", ":", "i", "m", "a", "g", "e", "/", "p", "n", "g", ";", "b", "a", "s", "e", "6", "4", ",", "a", "G", "k">>,
     <<"U", "k", "d", "C">>,
     <<"d", "a", "t", "a", ":", "i", "m", "a", "g", "e", "/", "p", "n", "g", ";", "b", "a", "s", "e", "6", "4", ",", "U", "k", "d", "C", ",">>}

\* the service outcomes an upload is answered with: the two errors, and the
\* answers without captions that carry no tag, the tag Blight or a tag
\* without a name
PageServiceOutcomes ==
    {o \in ServiceOutcomes :
        /\ o.captions = <<>>
        /\ o.tags \in {<<>>, <<<<"B", "l", "i", "g", "h", "t">>>>, <<None>>}}

----------------------------------------------------------------------------
(* update_image_upload: the code *)

RECURSIVE split(_, _)
\* s.split(sep), sep a single character
split(sep, s) ==
    IF \A i \in 1..Len(s) : s[i] # sep THEN <<s>>
    ELSE LET i == CHOOSE k \in 1..Len(s) :
                      s[k] = sep /\ \A j \in 1..(k - 1) : s[j] # sep
         IN  <<SubSeq(s, 1, i - 1)>> \o split(sep, SubSeq(s, i + 1, Len(s)))

\* base64.b64decode on the base64 texts of UploadContents; the bytes are
\* written as the text they spell
b64decode(s) ==
    CASE s = <<"U", "k", "d", "C">> -> Return("RGB")
      [] s = <<"U", "k", "d", "C", "Q", "Q", "=", "=">> -> Return("RGBA")
      [] s = <<"a", "G", "k", "=">> -> Return("hi")
      [] s = <<"a", "G", "k">> -> Raise("Incorrect padding")

\* Image.open(BytesIO(decoded)): the bytes of an image file are written as
\* the mode of the image they hold, other bytes are no image file
Image_open(decoded) ==
    IF decoded \in {"L", "RGB", "CMYK", "RGBA"} THEN Return([mode |-> decoded])
    ELSE Raise("cannot identify image file")

\* analysis_result = analyze_maize_image(image) calling the classifier twice
call_analyze_twice(img, svc) ==
    analyze_maize_image(img, svc) @@ [calls |-> 2]

\* analysis_result = analyze_maize_image(image)
call_analyze(img, svc) ==
    analyze_maize_image(img, svc) @@ [calls |-> 1]

\* the status colour looked up with .get and its default
status_color(health_status) ==
    IF health_status = Healthy THEN "#00ff9d"
    ELSE IF health_status = Spotted THEN "#ffae00"
    ELSE IF health_status = Blighted THEN "#ff0000"
    ELSE "#00ff9d"

\* the html.Div returned after the classifier came back: the image and the
\* analysis lines, or the image and the error line
analysis_children(cont, analysis_result) ==
    IF analysis_result.success
    THEN [kind |-> "analysis",
          img_src |-> cont,
          health_status |-> analysis_result.health_status,
          status_color |-> status_color(analysis_result.health_status),
          confidence |-> ToString(analysis_result.confidence) \o ".0%",
          analysis |-> analysis_result.description,
          detected_features |-> join(<<",", " ">>, analysis_result.tags)]
    ELSE [kind |-> "analysis_error",
          img_src |-> cont,
          error |-> analysis_result.error]

\* the html.Div of the except clause
error_children(message) == [kind |-> "error", error |-> message]

\* what a block of update_image_upload leaves behind besides its value
Upload(block, calls, img, analysis_result) ==
    [raised |-> block.raised, value |-> block.value, message |-> block.message,
     calls |-> calls, image |-> img, analysis_result |-> analysis_result]

NoImage == [mode |-> "RGB"]

\* the body of the try block
upload_try(cont, svc) ==
    LET parts == split(",", cont)
    IN  IF Len(parts) < 2
        THEN Upload(Raise("not enough values to unpack (expected 2, got 1)"),
                    0, NoImage, NoResult)
        ELSE IF Len(parts) > 2
        THEN Upload(Raise("too many values to unpack (expected 2)"),
                    0, NoImage, NoResult)
        ELSE LET decoded == b64decode(parts[2])
             IN  IF decoded.raised THEN Upload(decoded, 0, NoImage, NoResult)
                 ELSE LET img == Image_open(decoded.value)
                      IN  IF img.raised THEN Upload(img, 0, NoImage, NoResult)
                          ELSE LET r == call_analyze(img.value, svc)
                               IN  IF r.raised
                                   THEN Upload(r, r.calls, img.value, NoResult)
                                   ELSE Upload(Return(analysis_children(cont, r.value)),
                                               r.calls, img.value, r.value)

\* update_image_upload with the decoding outside the try block
update_image_upload_no_except(cont, svc) ==
    IF cont = None
    THEN [outcome |-> "PreventUpdate", children |-> NoChildren, calls |-> 0,
          image |-> NoImage, analysis_result |-> NoResult]
    ELSE LET body == upload_try(cont, svc)
         IN  [outcome |-> IF body.raised /\ body.calls = 0 THEN "raised"
                          ELSE "returned",
              children |-> IF body.raised THEN error_children(body.message)
                           ELSE body.value,
              calls |-> body.calls,
              image |-> body.image,
              analysis_result |-> body.analysis_result]

update_image_upload(cont, svc) ==
    IF cont = None
    THEN [outcome |-> "PreventUpdate", children |-> NoChildren, calls |-> 0,
          image |-> NoImage, analysis_result |-> NoResult]
    ELSE LET body == upload_try(cont, svc)
         IN  [outcome |-> "returned",
              children |-> IF body.raised THEN error_children(body.message)
                           ELSE body.value,
              calls |-> body.calls,
              image |-> body.image,
              analysis_result |-> body.analysis_result]

----------------------------------------------------------------------------
(* update_chat: the inputs and the code *)

\* what the user leaves in chat-input before a click or Enter
ChatTexts == {<<>>, <<"W", "A", "T", "E", "R">>, <<"h", "e", "l", "l", "o">>, <<"U", "n", "h", "e", "a", "l", "t", "h", "y", " ", "W", "A", "T", "E", "R">>}

\* html.Div([html.Span("You: "), html.Span(input_value)])
user_entry(text) == [label |-> "You: ", message |-> text]

\* html.Div([html.Span("Farm Assistant: "), html.Span(response)])
assistant_entry(text) == [label |-> "Farm Assistant: ", response |-> text]

\* response = get_rag_response(input_value, context) calling the lookup
\* once more for the entry
call_lookup_twice(text, ctx) ==
    get_rag_response(text, ctx) @@ [calls |-> 2]

\* response = get_rag_response(input_value, context)
call_lookup(text, ctx) ==
    get_rag_response(text, ctx) @@ [calls |-> 1]

\* update_chat starting a new list at every submit
update_chat_fresh_list(trig, text, hist, ctx) ==
    IF ~trig \/ text = None \/ text = <<>>
    THEN [outcome |-> "PreventUpdate", chat_history |-> hist, value |-> text,
          calls |-> 0, response |-> "", context |-> ctx]
    ELSE LET r == call_lookup(text, ctx)
         IN  IF r.raised
             THEN [outcome |-> "raised", chat_history |-> hist, value |-> text,
                   calls |-> r.calls, response |-> "", context |-> r.context]
             ELSE [outcome |-> "returned",
                   chat_history |-> <<user_entry(text), assistant_entry(r.value)>>,
                   value |-> <<>>,
                   calls |-> r.calls, response |-> r.value, context |-> r.context]

update_chat(trig, text, hist, ctx) ==
    IF ~trig \/ text = None \/ text = <<>>
    THEN [outcome |-> "PreventUpdate", chat_history |-> hist, value |-> text,
          calls |-> 0, response |-> "", context |-> ctx]
    ELSE LET history == IF hist = NoHistory THEN <<>> ELSE hist
             with_user == Append(history, user_entry(text))
             r == call_lookup(text, ctx)
         IN  IF r.raised
             THEN [outcome |-> "raised", chat_history |-> hist, value |-> text,
                   calls |-> r.calls, response |-> "", context |-> r.context]
             ELSE [outcome |-> "returned",
                   chat_history |-> Append(with_user, assistant_entry(r.value)),
                   value |-> <<>>,
                   calls |-> r.calls, response |-> r.value, context |-> r.context]

----------------------------------------------------------------------------
(* The page: uploads, edits of the chat input and chat submits, in any order *)

InitPage == InitLookup

\* the browser sends upload-image contents and the callback answers
UpdateImageUpload ==
    /\ \E cont \in UploadContents, svc \in PageServiceOutcomes :
        \E u \in {update_image_upload(cont, svc)} :
            /\ contents' = cont
            /\ callback_outcome' = u.outcome
            /\ children' = IF u.outcome = "returned" THEN u.children ELSE children
            /\ component_calls' = [analyze_maize_image |-> u.calls,
                                   get_rag_response |-> 0]
            /\ pc' = IF u.calls > 0 THEN "returned" ELSE "idle"
            /\ image' = u.image
            /\ service' = IF u.calls > 0 THEN svc
                          ELSE [raises |-> FALSE, message |-> "",
                                tags |-> <<>>, captions |-> <<>>]
            /\ result' = u.analysis_result
            /\ service_calls' = IF u.calls > 0 THEN outbound_calls(u.image, svc)
                                ELSE 0
    /\ callback' = "update_image_upload"
    /\ triggered' = FALSE
    /\ input_value' = None
    /\ history_arg' = NoHistory
    /\ UNCHANGED <<raised, seen_images, seen_results>>
    /\ UNCHANGED <<chat_input, chat_history, submits>>
    /\ UNCHANGED <<lookup_vars, farm_vars>>

\* the user edits the text of chat-input
TypeChatInput ==
    /\ \E text \in ChatTexts : text # chat_input /\ chat_input' = text
    /\ callback' = "none"
    /\ callback_outcome' = "none"
    /\ component_calls' = NoCalls
    /\ triggered' = FALSE
    /\ input_value' = None
    /\ history_arg' = NoHistory
    /\ UNCHANGED <<contents, children, chat_history, submits>>
    /\ UNCHANGED <<classifier_vars, lookup_vars, farm_vars>>

\* the page loads, or the user clicks Send or presses Enter, and the callback
\* answers; the context bundle holds the three dictionaries themselves
UpdateChat ==
    /\ submits < MaxSubmits
    /\ \E trig \in BOOLEAN :
        LET ctx == [inventory |-> inventory, plant_health |-> plant_health,
                    system_status |-> system_status]
        IN  \E u \in {update_chat(trig, chat_input, chat_history, ctx)} :
            /\ triggered' = trig
            /\ callback_outcome' = u.outcome
            /\ chat_history' = IF u.outcome = "returned" THEN u.chat_history
                               ELSE chat_history
            /\ chat_input' = IF u.outcome = "returned" THEN u.value ELSE chat_input
            /\ submits' = IF u.outcome = "returned" THEN submits + 1 ELSE submits
            /\ component_calls' = [analyze_maize_image |-> 0,
                                   get_rag_response |-> u.calls]
            /\ inventory' = u.context.inventory
            /\ plant_health' = u.context.plant_health
            /\ system_status' = u.context.system_status
            /\ IF u.calls > 0
               THEN /\ user_message' = chat_input
                    /\ context' = ctx
                    /\ context_after' = u.context
                    /\ response' = u.response
                    /\ lookup_raised' = (u.outcome = "raised")
               ELSE UNCHANGED <<user_message, context, context_after, response,
                                lookup_raised>>
    /\ callback' = "update_chat"
    /\ input_value' = chat_input
    /\ history_arg' = chat_history
    /\ UNCHANGED <<lookup_pc, asked, answers>>
    /\ UNCHANGED <<contents, children>>
    /\ UNCHANGED classifier_vars

NextPage == UpdateImageUpload \/ TypeChatInput \/ UpdateChat

SpecPage == InitPage /\ [][NextPage]_vars

----------------------------------------------------------------------------
(* Properties of analyze_maize_image, checked under Spec *)

Returned == pc = "returned"

\* the image was encoded and the service answered with named tags and, when
\* it gave captions, a first caption that has a text
Answered ==
    /\ image.mode \in JPEGModes
    /\ ~service.raises
    /\ \A i \in 1..Len(service.tags) : service.tags[i] # None
    /\ service.captions # <<>> => service.captions[1] # None

FirstCaption == IF service.captions = <<>> THEN <<>> ELSE service.captions[1]

\* all tag names lowercased, joined with the lowercased first caption
SearchText ==
    join(<<" ">>, [i \in 1..Len(service.tags) |-> lower(service.tags[i])]
                  \o <<lower(FirstCaption)>>)

BlightKeywords == {<<"b", "l", "i", "g", "h", "t">>, <<"b", "l", "i", "g", "h", "t", "e", "d">>, <<"w", "i", "l", "t", "e", "d">>, <<"d", "y", "i", "n", "g">>,
                   <<"d", "i", "s", "e", "a", "s", "e", "d">>, <<"d", "i", "s", "e", "a", "s", "e">>, <<"i", "n", "f", "e", "c", "t", "e", "d">>}
SpotKeywords == {<<"s", "p", "o", "t">>, <<"s", "p", "o", "t", "s">>, <<"s", "p", "o", "t", "t", "e", "d">>, <<"l", "e", "s", "i", "o", "n">>,
                 <<"l", "e", "s", "i", "o", "n", "s">>, <<"b", "r", "o", "w", "n">>, <<"y", "e", "l", "l", "o", "w">>}

HasBlight == \E k \in BlightKeywords : contains(k, SearchText)
HasSpot == \E k \in SpotKeywords : contains(k, SearchText)

HealthLabels == {Healthy, Spotted, Blighted}

Succeeded ==
    /\ ~raised
    /\ "success" \in DOMAIN result
    /\ result.success = TRUE
    /\ "health_status" \in DOMAIN result

\* C1: whenever the search text holds a blight keyword the returned
\* health_status is Blighted, also when a spot keyword is there too and
\* whichever of the two comes first in the text.
C1_BlightPrecedence ==
    (Returned /\ Answered /\ HasBlight) =>
        (Succeeded /\ result.health_status = Blighted)

\* a spot keyword (tag YELLOW) precedes a blight keyword (caption DYING)
C1_Witness ==
    /\ Returned /\ Answered
    /\ Len(service.tags) >= 1 /\ service.tags[1] = <<"Y", "E", "L", "L", "O", "W">>
    /\ FirstCaption = <<"a", " ", "D", "Y", "I", "N", "G", " ", "p", "l", "a", "n", "t">>
    /\ HasSpot /\ HasBlight
    /\ result.health_status = Blighted

\* C2: a search text with no blight keyword and no spot keyword, the one of
\* a response without tags and captions included, gives success = True,
\* health_status Healthy and confidence 0.99.
C2_NoMatchHealthy ==
    (Returned /\ Answered /\ ~HasBlight /\ ~HasSpot) =>
        (Succeeded /\ result.health_status = Healthy
                   /\ result.confidence = confidence_0_99)

C2_Witness ==
    /\ Returned /\ Answered
    /\ service.tags = <<>> /\ service.captions = <<>>
    /\ result.success = TRUE
    /\ result.health_status = Healthy
    /\ result.confidence = 99

\* C3: with no blight keyword in the search text and a spot keyword in it,
\* in any letter case, in a tag or in the first caption, the health_status
\* is Spotted; and Spotted is never returned when a blight keyword occurs.
C3_SpottedByOrderedChecks ==
    /\ (Returned /\ Answered /\ ~HasBlight /\ HasSpot) =>
           (Succeeded /\ result.health_status = Spotted)
    /\ (Returned /\ Answered /\ HasBlight) =>
           (Succeeded /\ result.health_status # Spotted)

\* the spot keyword comes in upper case, in a tag
C3_Witness ==
    /\ Returned /\ Answered
    /\ service.tags = <<<<"Y", "E", "L", "L", "O", "W">>>>
    /\ ~HasBlight
    /\ result.health_status = Spotted

EncodingFailed == image.mode \notin JPEGModes
ServiceCallFailed == image.mode \in JPEGModes /\ service.raises

FailureMessage ==
    IF EncodingFailed THEN "cannot write mode " \o image.mode \o " as JPEG"
    ELSE service.message

\* C6: when encoding the image or the service call fails, the function does
\* not raise and returns success = False with the failure's message in
\* error and without a health_status.
C6_FailureIsAResult ==
    (Returned /\ (EncodingFailed \/ ServiceCallFailed)) =>
        /\ ~raised
        /\ DOMAIN result = {"success", "error"}
        /\ result.success = FALSE
        /\ result.error = FailureMessage

\* the service rejected the credential
C6_Witness ==
    /\ Returned /\ ServiceCallFailed
    /\ service.message = "Access denied due to invalid subscription key"
    /\ result = [success |-> FALSE,
                 error |-> "Access denied due to invalid subscription key"]

\* C8: in every returned result health_status is present exactly when
\* success is True, its value is then Healthy, Spotted or Blighted, and a
\* result with success False has an error field.
C8_HealthStatusIffSuccess ==
    Returned =>
        /\ ~raised
        /\ "success" \in DOMAIN result
        /\ result.success \in BOOLEAN
        /\ ("health_status" \in DOMAIN result) <=> (result.success = TRUE)
        /\ ("health_status" \in DOMAIN result) => result.health_status \in HealthLabels
        /\ (result.success = FALSE) => "error" \in DOMAIN result

\* a tag without a name makes the classification itself fail
C8_Witness ==
    /\ Returned
    /\ image.mode \in JPEGModes /\ ~service.raises
    /\ \E i \in 1..Len(service.tags) : service.tags[i] = None
    /\ result.success = FALSE
    /\ "health_status" \notin DOMAIN result
    /\ "error" \in DOMAIN result

\* C9: every successful result has confidence 0.99, whichever label was
\* chosen and however many keywords matched; the initial 0.0 is never
\* returned.
C9_ConfidenceConstant ==
    (Returned /\ ~raised /\ "success" \in DOMAIN result /\ result.success = TRUE) =>
        /\ result.confidence = confidence_0_99
        /\ result.confidence # confidence_initial

\* two blight keywords and a spot keyword matched
C9_Witness ==
    /\ Returned /\ Answered
    /\ Cardinality({k \in BlightKeywords \cup SpotKeywords : contains(k, SearchText)}) >= 3
    /\ result.success = TRUE
    /\ result.health_status = Blighted
    /\ result.confidence = 99

----------------------------------------------------------------------------
(* Properties of get_rag_response, checked under SpecLookup *)

\* a call of get_rag_response(user_message, context) has come back
LookupReturned == lookup_pc = "idle" /\ asked # {}

\* the call was made on free text
OnText == LookupReturned /\ is_str(user_message)

\* key occurs in the text, in any letter case
TextContains(key) == contains(key, lower(user_message))

\* the canned sentence stored under key
SentenceOf(key) ==
    responses[CHOOSE i \in 1..Len(responses) : responses[i].key = key].response

\* C4 as stated: every text containing "water" gets the water sentence,
\* whichever of health, nutrients, growth, temperature it contains as well.
C4_WaterWhateverElse ==
    (OnText /\ TextContains(<<"w", "a", "t", "e", "r">>)) => response = SentenceOf(<<"w", "a", "t", "e", "r">>)

\* C4, amended: every text containing "water" and not "health" gets the
\* water sentence, whichever of nutrients, growth, temperature it contains
\* as well; a text containing "water" and "health" gets the health sentence.
C4_WaterUnlessHealth ==
    /\ (OnText /\ TextContains(<<"w", "a", "t", "e", "r">>) /\ ~TextContains(<<"h", "e", "a", "l", "t", "h">>)) =>
           response = SentenceOf(<<"w", "a", "t", "e", "r">>)
    /\ (OnText /\ TextContains(<<"w", "a", "t", "e", "r">>) /\ TextContains(<<"h", "e", "a", "l", "t", "h">>)) =>
           response = SentenceOf(<<"h", "e", "a", "l", "t", "h">>)

\* "nutrients" comes before "water" in the text
C4_Witness ==
    /\ OnText
    /\ user_message = <<"n", "u", "t", "r", "i", "e", "n", "t", "s", " ", "W", "A", "T", "E", "R">>
    /\ response = SentenceOf(<<"w", "a", "t", "e", "r">>)

DeclaredOrder == <<<<"h", "e", "a", "l", "t", "h">>, <<"w", "a", "t", "e", "r">>, <<"n", "u", "t", "r", "i", "e", "n", "t", "s">>, <<"g", "r", "o", "w", "t", "h">>,
                   <<"t", "e", "m", "p", "e", "r", "a", "t", "u", "r", "e">>>>

MatchingKeys == {i \in 1..Len(DeclaredOrder) : TextContains(DeclaredOrder[i])}

FirstMatchingKey ==
    DeclaredOrder[CHOOSE i \in MatchingKeys : \A j \in MatchingKeys : i <= j]

\* C5: for a str input the result is the sentence of the first key, in the
\* order health, water, nutrients, growth, temperature, that occurs in the
\* lowercased input, and the fallback prompt when no key occurs.
C5_FirstKeyInDeclaredOrder ==
    OnText =>
        /\ ~lookup_raised
        /\ response = IF MatchingKeys = {} THEN default_response
                      ELSE SentenceOf(FirstMatchingKey)

\* the later key of the declared order comes first in the text
C5_Witness ==
    /\ OnText
    /\ user_message = <<"t", "e", "m", "p", "e", "r", "a", "t", "u", "r", "e", " ", "G", "r", "o", "w", "t", "h">>
    /\ response = SentenceOf(<<"g", "r", "o", "w", "t", "h">>)

CannedSentences == {SentenceOf(DeclaredOrder[i]) : i \in 1..Len(DeclaredOrder)}

\* C7: get_rag_response never raises; it returns a canned sentence, the
\* fallback prompt or the apology, and the apology for a message that is
\* no str.
C7_NeverRaises ==
    LookupReturned =>
        /\ ~lookup_raised
        /\ response \in CannedSentences \cup {default_response, apology_response}
        /\ ~is_str(user_message) => response = apology_response

C7_Witness ==
    /\ LookupReturned
    /\ user_message = None
    /\ ~lookup_raised
    /\ response = apology_response

\* C10: calls with the same message return the same string whatever the
\* context, None included, and a call leaves the context bundle as it was.
C10_ContextInert ==
    /\ Cardinality(answers) <= 1
    /\ LookupReturned => context_after = context

\* the same text was asked with every context, the last one a bundle
C10_Witness ==
    /\ LookupReturned
    /\ asked = Contexts
    /\ context = dry_context
    /\ TextContains(<<"w", "a", "t", "e", "r">>)
    /\ answers = {response}


----------------------------------------------------------------------------
(* Properties of the service calls of analyze_maize_image *)

\* C12 as stated: every invocation makes one call to the vision service.
C12_OneCallEveryInvocation ==
    Returned => service_calls = 1

\* C12, amended: an invocation whose image was encoded makes exactly one
\* call to the vision service, also when that call fails (no retry); an
\* invocation whose image cannot be encoded makes none.
C12_OneCallUnlessEncodingFails ==
    Returned =>
        /\ service_calls <= 1
        /\ ~EncodingFailed => service_calls = 1
        /\ EncodingFailed => service_calls = 0
        /\ ServiceCallFailed => (service_calls = 1 /\ result.success = FALSE)

\* the one call failed and the failure result came back
C12_Witness ==
    /\ Returned /\ ServiceCallFailed
    /\ service.message = "Connection timed out"
    /\ service_calls = 1
    /\ result.success = FALSE

\* C14: invocations that receive the same service output return the same
\* health_status and the same whole result.
C14_SameOutputSameResult ==
    /\ Cardinality(seen_results) <= 1
    /\ \A r1, r2 \in seen_results :
           ("health_status" \in DOMAIN r1) =>
               /\ "health_status" \in DOMAIN r2
               /\ r1.health_status = r2.health_status

\* two invocations on different images got the same answer with a spot tag
C14_Witness ==
    /\ Returned /\ Answered /\ HasSpot /\ ~HasBlight
    /\ seen_images = {[mode |-> "RGB"], [mode |-> "L"]}
    /\ seen_results = {result}
    /\ result.health_status = Spotted


----------------------------------------------------------------------------
(* Properties of the callbacks of app.py, checked under SpecPage *)

UploadRan == callback = "update_image_upload"
ChatRan == callback = "update_chat"

TotalCalls ==
    component_calls.analyze_maize_image + component_calls.get_rag_response

Commas == Cardinality({i \in 1..Len(contents) : contents[i] = ","})

\* the text after the only comma of contents
Base64Text ==
    LET i == CHOOSE k \in 1..Len(contents) : contents[k] = ","
    IN  SubSeq(contents, i + 1, Len(contents))

\* contents is a data URL whose base64 text decodes to the bytes of an image
DecodesToImage ==
    /\ contents # None
    /\ Commas = 1
    /\ ~b64decode(Base64Text).raised
    /\ ~Image_open(b64decode(Base64Text).value).raised

\* the text of the exception a malformed upload ends with
MalformedText ==
    IF Commas = 0 THEN "not enough values to unpack (expected 2, got 1)"
    ELSE IF Commas > 1 THEN "too many values to unpack (expected 2)"
    ELSE IF b64decode(Base64Text).raised THEN b64decode(Base64Text).message
    ELSE Image_open(b64decode(Base64Text).value).message

\* the chat submit was one update_chat accepts
Accepted == triggered /\ input_value # None /\ input_value # <<>>

\* C11 as stated: every callback that returns its UI update has made
\* exactly one call to one of the two components.
C11_OneCallEveryAction ==
    ((UploadRan \/ ChatRan) /\ callback_outcome = "returned") => TotalCalls = 1

\* C11, amended: a callback makes at most one call to the two components.
\* update_image_upload calls analyze_maize_image once when the contents
\* decode to an image and calls nothing when they are None or malformed;
\* update_chat calls get_rag_response once when it was triggered with a
\* non-empty input and calls nothing otherwise.
C11_AtMostOneCall ==
    /\ (UploadRan \/ ChatRan) => TotalCalls <= 1
    /\ UploadRan =>
        /\ component_calls.get_rag_response = 0
        /\ DecodesToImage => component_calls.analyze_maize_image = 1
        /\ ~DecodesToImage => component_calls.analyze_maize_image = 0
    /\ ChatRan =>
        /\ component_calls.analyze_maize_image = 0
        /\ Accepted => component_calls.get_rag_response = 1
        /\ ~Accepted => component_calls.get_rag_response = 0

\* an upload of an image was classified by one call
C11_Witness ==
    /\ UploadRan /\ DecodesToImage
    /\ callback_outcome = "returned"
    /\ component_calls = [analyze_maize_image |-> 1, get_rag_response |-> 0]
    /\ children.kind = "analysis"

\* C13: for contents other than None update_image_upload returns and does
\* not raise; a malformed upload gives the error element with the
\* exception's text, a classifier failure gives the error line with the
\* result's error; PreventUpdate is raised for contents None and only then.
C13_UploadAlwaysRenders ==
    UploadRan =>
        /\ callback_outcome \in {"returned", "PreventUpdate"}
        /\ (callback_outcome = "PreventUpdate") <=> (contents = None)
        /\ (contents # None /\ ~DecodesToImage) =>
               children = error_children(MalformedText)
        /\ (DecodesToImage /\ "success" \in DOMAIN result /\ ~result.success) =>
               /\ children.kind = "analysis_error"
               /\ children.error = result.error
        /\ DecodesToImage => children.kind \in {"analysis", "analysis_error"}

\* contents without a comma
C13_Witness ==
    /\ UploadRan
    /\ contents = <<"U", "k", "d", "C">>
    /\ callback_outcome = "returned"
    /\ children = [kind |-> "error",
                   error |-> "not enough values to unpack (expected 2, got 1)"]

\* C15: after any uploads and chat submits inventory, plant_health and
\* system_status hold their startup values, although update_chat hands the
\* three dictionaries themselves to get_rag_response.
C15_DictionariesReadOnly ==
    /\ inventory = farm_context.inventory
    /\ plant_health = farm_context.plant_health
    /\ system_status = farm_context.system_status

\* an upload was classified and a submit was answered with the bundle
C15_Witness ==
    /\ ChatRan /\ callback_outcome = "returned"
    /\ children # NoChildren
    /\ submits >= 1
    /\ context = farm_context
    /\ context_after = farm_context
    /\ inventory = farm_context.inventory

\* the response the lookup gives to a text
AnswerTo(text) ==
    LET keys == {i \in 1..Len(DeclaredOrder) :
                    contains(DeclaredOrder[i], lower(text))}
    IN  IF keys = {} THEN default_response
        ELSE SentenceOf(DeclaredOrder[CHOOSE i \in keys : \A j \in keys : i <= j])

EarlierHistory == IF history_arg = NoHistory THEN <<>> ELSE history_arg

\* C16: an update_chat triggered with a non-empty input keeps the earlier
\* entries in order (None counts as empty), appends the user's message and
\* then the response to it, and returns '' for the input; otherwise it
\* raises PreventUpdate and history and input stay. After n accepted
\* submits the history has 2n entries, user and assistant alternating.
C16_HistoryGrowsInPairs ==
    /\ ChatRan =>
        /\ callback_outcome \in {"returned", "PreventUpdate"}
        /\ (callback_outcome = "returned") <=> Accepted
    /\ (ChatRan /\ callback_outcome = "returned") =>
        /\ chat_history = EarlierHistory
               \o <<user_entry(input_value), assistant_entry(AnswerTo(input_value))>>
        /\ chat_input = <<>>
    /\ (ChatRan /\ callback_outcome = "PreventUpdate") =>
        /\ chat_history = history_arg
        /\ chat_input = input_value
    /\ (submits = 0) <=> (chat_history = NoHistory)
    /\ submits > 0 =>
        /\ Len(chat_history) = 2 * submits
        /\ \A i \in 1..submits :
            /\ chat_history[2 * i - 1].label = "You: "
            /\ chat_history[2 * i].label = "Farm Assistant: "
            /\ chat_history[2 * i].response = AnswerTo(chat_history[2 * i - 1].message)

\* the second accepted submit
C16_Witness ==
    /\ ChatRan /\ callback_outcome = "returned"
    /\ submits = 2
    /\ Len(history_arg) = 2
    /\ chat_history = history_arg
           \o <<user_entry(<<"U", "n", "h", "e", "a", "l", "t", "h", "y", " ", "W", "A", "T", "E", "R">>),
                assistant_entry(SentenceOf(<<"h", "e", "a", "l", "t", "h">>))>>
    /\ chat_input = <<>>

====
